---------------------------- MODULE Spec2Model ----------------------------
(***************************************************************************)
(* RapidRTMP: the ingest-to-segment pipeline as a state machine.           *)
(*                                                                         *)
(*   auth.Manager          token store (issue / validate / mark used /     *)
(*                         purge)                                          *)
(*   streammanager.Manager stream registry and per-stream fan-out          *)
(*   rtmp.ConnHandler      one RTMP connection: OnPublish, OnVideo,        *)
(*                         OnAudio, OnClose                                *)
(*   segmenter.Segmenter   one PlaylistManager and one worker goroutine    *)
(*                         per segmented stream key                        *)
(*   storage.Storage       the set of object paths that can be read        *)
(*                                                                         *)
(* Go values that are reached through pointers (a PublishToken, a Stream,  *)
(* a frame channel, a PlaylistManager) are heap objects:                   *)
(* a sequence indexed by the object's identity, so that a map entry can be *)
(* replaced or deleted while a goroutine still holds the old object.       *)
(* Every action is one critical section of the code (one lock scope) or    *)
(* one step between two of them, so every interleaving the locks allow is  *)
(* an interleaving of the model.                                           *)
(***************************************************************************)
EXTENDS Integers, Sequences, FiniteSets, TLC

(***************************************************************************)
(* Bounds of the model.                                                    *)
(***************************************************************************)
\* tokens issued by POST /publish
MaxTokens == 1
\* advances of the wall clock, each of ClockStep seconds
MaxTicks == 2
\* media messages one connection sends in the fan-out scenarios
MaxFanoutMsgs == 1
\* media messages one connection sends in the segmenter scenarios
MaxSegMsgs == 3
\* storage writes that fail
MaxWriteFailures == 1
\* capacity of a subscriber channel (1000 in StartSegmenting, scaled down)
ChanCap == 1
\* the sliding window (maxSegments, 10 in segmenter.New, scaled down)
MaxSegments == 2
\* video messages one connection sends, byte-level
MaxVideoMsgs == 2
MaxRejectedMsgs == 1

(***************************************************************************)
(* Program constants, in seconds.                                          *)
(***************************************************************************)
DefaultExpiration == 3600
MaxExpiration == 86400
OneMinute == 60
\* handlePublish: "Default expiration to 1 hour"
HttpDefaultExpiresIn == 3600

ClockStep == OneMinute

Conns == {"c1", "c2"}
Keys == {"live1", "live2"}
\* the expiresIn values POST /publish is called with
ExpiresInChoices == {0, OneMinute}

NoToken == 0
NoObj == 0
\* segmenter.New: segmentDuration is 2 * time.Second, here in milliseconds
DefaultSegmentDuration == 2000
\* one second in milliseconds: time.Duration.Seconds
Second == 1000
\* the segment durations a Segmenter is configured with
SegmentDurations == {DefaultSegmentDuration, 2500, 3000}

VARIABLES
    now,            \* wall clock, seconds
    ticks,          \* clock advances so far
    tokObjs,        \* heap of models.PublishToken, index = token string
    tokens,         \* auth.Manager.tokens: the token strings in the map
    cleanupAt,      \* per token: when its cleanupToken goroutine wakes; 0 = done
    objs,           \* heap of models.Stream
    streams,        \* streammanager.Manager.streams: key -> object or NoObj
    subscribers,    \* streammanager.Manager.subscribers: key -> channels
    chans,          \* heap of frame channels
    playlists,      \* segmenter.Segmenter.playlists: key -> pm or NoObj
    pms,            \* heap of PlaylistManager (with its worker goroutine)
    storage,        \* the paths storage.Read finds
    pendingDeletes, \* go storage.Delete(path) goroutines not yet run
    writeFailures,  \* storage writes that have failed so far
    conn,           \* per connection: the ConnHandler and its position
    invoked,        \* PublishFrame invocations so far
    panicked,       \* a goroutine sent on a closed channel
    segmentDuration, \* segmenter.Segmenter.segmentDuration, milliseconds
    video,          \* one ConnHandler's video state at the level of bytes
    locking         \* per goroutine: the mutex operations left in its call

vars == <<now, ticks, tokObjs, tokens, cleanupAt, objs, streams, subscribers,
          chans, playlists, pms, storage, pendingDeletes, writeFailures, conn,
          invoked, panicked, segmentDuration, video, locking>>

authVars == <<now, ticks, tokObjs, tokens, cleanupAt>>
regVars == <<objs, streams, subscribers, chans>>
segVars == <<playlists, pms, storage, pendingDeletes, writeFailures>>
byteVars == <<segmentDuration, video, locking>>

Min(a, b) == IF a < b THEN a ELSE b

Range(s) == {s[i] : i \in DOMAIN s}

(***************************************************************************)
(* models.PublishToken and auth.Manager                                    *)
(***************************************************************************)

\* PublishToken.IsValid, the mutant that forgets the used flag
IsValidIgnoringUsed(t) == now < tokObjs[t].ExpiresAt

\* PublishToken.IsValid: !t.IsUsed && time.Now().Before(t.ExpiresAt)
IsValid(t) == ~tokObjs[t].IsUsed /\ now < tokObjs[t].ExpiresAt

\* int and time.Duration are 64-bit two's complement integers: 8 bytes, the
\* least significant first
RECURSIVE Limbs(_, _)
Limbs(n, k) == IF k = 0 THEN <<>> ELSE <<n % 256>> \o Limbs(n \div 256, k - 1)

RECURSIVE AddLimbs(_, _, _, _)
AddLimbs(a, b, i, carry) ==
    IF i > 8 THEN <<>>
    ELSE <<(a[i] + b[i] + carry) % 256>>
         \o AddLimbs(a, b, i + 1, (a[i] + b[i] + carry) \div 256)

\* a + b, wrapping
Add64(a, b) == AddLimbs(a, b, 1, 0)

\* -a, wrapping
Neg64(a) == Add64([i \in 1..8 |-> 255 - a[i]], Limbs(1, 8))

\* the int64 of an integer of the model
ToInt64(n) == IF n < 0 THEN Neg64(Limbs(-n, 8)) ELSE Limbs(n, 8)

RECURSIVE SumProducts(_, _, _, _)
SumProducts(a, b, k, i) ==
    IF i > k THEN 0 ELSE a[i] * b[k + 1 - i] + SumProducts(a, b, k, i + 1)

RECURSIVE MulLimbs(_, _, _, _)
MulLimbs(a, b, k, carry) ==
    IF k > 8 THEN <<>>
    ELSE <<(carry + SumProducts(a, b, k, 1)) % 256>>
         \o MulLimbs(a, b, k + 1, (carry + SumProducts(a, b, k, 1)) \div 256)

\* a * b, wrapping: the low 64 bits of the product
Mul64(a, b) == MulLimbs(a, b, 1, 0)

IsNeg64(a) == a[8] >= 128

RECURSIVE LessLimbs(_, _, _)
LessLimbs(a, b, i) ==
    IF i = 0 THEN FALSE
    ELSE IF a[i] # b[i] THEN a[i] < b[i]
    ELSE LessLimbs(a, b, i - 1)

\* a < b, signed
Less64(a, b) ==
    IF IsNeg64(a) # IsNeg64(b) THEN IsNeg64(a) ELSE LessLimbs(a, b, 8)

\* the unsigned quotient a / d for a small d, from the top byte down
RECURSIVE DivLimbs(_, _, _, _)
DivLimbs(a, d, i, r) ==
    IF i = 0 THEN <<>>
    ELSE DivLimbs(a, d, i - 1, (r * 256 + a[i]) % d) \o <<(r * 256 + a[i]) \div d>>

\* the integer of the model of an int64 in its range
ToInt(a) ==
    IF IsNeg64(a)
    THEN -(Neg64(a)[1] + 256 * Neg64(a)[2] + 65536 * Neg64(a)[3]
           + 16777216 * Neg64(a)[4])
    ELSE a[1] + 256 * a[2] + 65536 * a[3] + 16777216 * a[4]

\* time.Second as a Duration, and a Duration of n seconds
NanosPerSecond == 1000000000
Second64 == ToInt64(NanosPerSecond)
Seconds64(n) == Mul64(ToInt64(n), Second64)

\* 0, and the defaultExpiration and maxExpiration of New
Zero64 == ToInt64(0)
DefaultExpiration64 == Seconds64(DefaultExpiration)
MaxExpiration64 == Seconds64(MaxExpiration)

\* a Duration in the unit of the model's clock, the second: d / 10^9, rounded
\* down.  Every Duration of the model is a whole number of seconds.
Seconds(d) ==
    LET Thousandth(a) == DivLimbs(a, 1000, 8, 0)
        Div(a) == Thousandth(Thousandth(Thousandth(a)))
    IN  IF IsNeg64(d)
        THEN -ToInt(Div(Add64(Neg64(d), Add64(Second64, ToInt64(-1)))))
        ELSE ToInt(Div(d))

\* the expiration GeneratePublishToken computes from expiresIn, a Duration:
\* time.Duration(expiresIn) * time.Second wraps at 64 bits
Expiration64(expiresIn) ==
    LET expiration == IF Less64(Zero64, expiresIn)
                      THEN Mul64(expiresIn, Second64)
                      ELSE DefaultExpiration64
    IN  IF Less64(MaxExpiration64, expiration)
        THEN MaxExpiration64
        ELSE expiration

\* the expires_in values of publish requests: none, and one minute
ExpiresInChoices64 == {ToInt64(e) : e \in ExpiresInChoices}

\* 2^55: that many seconds are 5^9 * 2^64 nanoseconds
TwoTo55 == <<0, 0, 0, 0, 0, 0, 128, 0>>

\* the expires_in values of publish requests: none, negative, below, at and
\* above the maximum, and values whose nanoseconds do not fit 64 bits
WideExpiresIn ==
    {ToInt64(n) : n \in {0, -OneMinute, OneMinute, MaxExpiration, MaxExpiration + 1}}
    \cup {TwoTo55, Add64(TwoTo55, ToInt64(OneMinute)),
          Add64(TwoTo55, ToInt64(-OneMinute))}

\* handlePublish: "Default expiration to 1 hour"
HttpDefaultExpiresIn64 == ToInt64(HttpDefaultExpiresIn)

\* the expiration in seconds of every expiresIn GeneratePublishToken is
\* called with, computed once
Expirations ==
    [expiresIn \in ExpiresInChoices64 \cup WideExpiresIn \cup {HttpDefaultExpiresIn64}
        |-> Seconds(Expiration64(expiresIn))]

\* the expiration GeneratePublishToken computes from expiresIn, in seconds
Expiration(expiresIn) == Expirations[expiresIn]

\* handlePublish -> GeneratePublishToken: a fresh random token string;
\* expiresIn is the int of the request
GeneratePublishToken(streamKey, expiresIn) ==
    /\ ~panicked
    /\ Len(tokObjs) < MaxTokens
    /\ LET e == Expiration(IF expiresIn = Zero64
                           THEN HttpDefaultExpiresIn64 ELSE expiresIn)
           t == Len(tokObjs) + 1
       IN  /\ tokObjs' = Append(tokObjs, [StreamKey |-> streamKey,
                                          CreatedAt |-> now,
                                          ExpiresAt |-> now + e,
                                          IsUsed |-> FALSE,
                                          \* history: the request's expires_in
                                          expiresIn |-> expiresIn])
           /\ tokens' = tokens \cup {t}
           /\ cleanupAt' = Append(cleanupAt, now + e + OneMinute)
    /\ UNCHANGED <<now, ticks, regVars, segVars, conn, invoked, panicked>>
    /\ UNCHANGED byteVars

\* cleanupToken: time.Sleep(expiration + 1 minute), then delete
cleanupToken(t) ==
    /\ ~panicked
    /\ t \in DOMAIN cleanupAt
    /\ cleanupAt[t] # 0
    /\ now >= cleanupAt[t]
    /\ tokens' = tokens \ {t}
    /\ cleanupAt' = [cleanupAt EXCEPT ![t] = 0]
    /\ UNCHANGED <<now, ticks, tokObjs, regVars, segVars, conn, invoked, panicked>>
    /\ UNCHANGED byteVars

\* CleanupExpiredTokens: delete every token with now.After(ExpiresAt)
CleanupExpiredTokens ==
    /\ ~panicked
    /\ tokens' = {t \in tokens : ~(now > tokObjs[t].ExpiresAt)}
    /\ UNCHANGED <<now, ticks, tokObjs, cleanupAt, regVars, segVars, conn,
                   invoked, panicked>>
    /\ UNCHANGED byteVars

\* the wall clock advances
Tick ==
    /\ ~panicked
    /\ ticks < MaxTicks
    /\ ticks' = ticks + 1
    /\ now' = now + ClockStep
    /\ UNCHANGED <<tokObjs, tokens, cleanupAt, regVars, segVars, conn, invoked,
                   panicked>>
    /\ UNCHANGED byteVars


(***************************************************************************)
(* models.Stream and streammanager.Manager                                 *)
(***************************************************************************)

\* the stream object CreateStream allocates
NewStream(streamKey, publisher) ==
    [Key |-> streamKey, State |-> "connecting", PublisherIP |-> publisher,
     FramesReceived |-> 0, KeyFramesReceived |-> 0, DroppedFrames |-> 0]

\* CreateStream's rejection: the key's current stream object is Live
AlreadyLive(streamKey) ==
    /\ streams[streamKey] # NoObj
    /\ objs[streams[streamKey]].State = "live"

\* Stream.SetState on one object of the heap
SetState(heap, o, state) == [heap EXCEPT ![o].State = state]

\* Stream.IncrementDroppedFrames, the mutant that counts nothing
IncrementNothing(heap, o) == heap

\* Stream.IncrementDroppedFrames
IncrementDroppedFrames(heap, o) ==
    [heap EXCEPT ![o].DroppedFrames = @ + 1]

\* Stream.UpdateStats
UpdateStats(heap, o, frame) ==
    [heap EXCEPT ![o].FramesReceived = @ + 1,
                 ![o].KeyFramesReceived = IF frame.IsKeyFrame THEN @ + 1 ELSE @]

\* close(ch) on every channel of the set; closing a closed channel panics
CloseAll(chs) ==
    [i \in DOMAIN chans |-> IF i \in chs THEN [chans[i] EXCEPT !.closed = TRUE,
                                                                !.closes = @ + 1]
                            ELSE chans[i]]

DoubleClose(chs) == \E i \in chs : chans[i].closed

\* the slice without its first occurrence of ch
RECURSIVE Remove(_, _)
Remove(s, ch) ==
    IF s = <<>> THEN <<>>
    ELSE IF Head(s) = ch THEN Tail(s)
    ELSE <<Head(s)>> \o Remove(Tail(s), ch)

\* the select in PublishFrame: the send case is ready when the buffer has room
CanSend(ch, frame) == Len(chans[ch].buf) < ChanCap

(***************************************************************************)
(* segmenter.Segmenter and PlaylistManager                                 *)
(***************************************************************************)

SegmentPath(streamKey, n) == <<streamKey, "segment", n>>
InitPath(streamKey) == <<streamKey, "init.mp4", 0>>

\* newSegmentBuffer, in the PlaylistManager StartSegmenting allocates
NewPlaylistManager(streamKey, ch) ==
    [streamKey |-> streamKey, segments |-> <<>>, sequenceNumber |-> 0,
     \* int(s.segmentDuration.Seconds()): the conversion truncates
     targetDuration |-> segmentDuration \div Second,
     frames |-> <<>>, hasKeyFrame |-> FALSE, hasInit |-> FALSE,
     ch |-> ch, running |-> TRUE,
     \* history, not read by the code: every sequence number recorded, and
     \* the frames of every buffer whose segment write failed
     \* and every path a storage write of its finalizations succeeded on
     recorded |-> <<>>, failed |-> <<>>, written |-> <<>>]

\* Segmenter.GetSegment: storage.Read of the segment's path
GetSegment(streamKey, segmentNum) ==
    IF SegmentPath(streamKey, segmentNum) \in storage THEN "ok" ELSE "not found"

\* Segmenter.GetPlaylist, and handlePlaylist's 404 or 200 on its result: the
\* playlist text is generated whenever the key has a PlaylistManager
GetPlaylist(streamKey) ==
    IF playlists[streamKey] = NoObj THEN "not found" ELSE "playlist"

\* the sequence numbers generatePlaylist lists, in order
Listed(p) == [i \in DOMAIN pms[p].segments |-> pms[p].segments[i].SequenceNum]

\* generatePlaylist: the playlist has the line #EXT-X-MAP:URI="init.mp4"
ExtXMap(p) == pms[p].hasInit

\* generatePlaylist: the EXT-X-TARGETDURATION value
TargetDuration(p) == pms[p].targetDuration

\* generatePlaylist: the EXT-X-MEDIA-SEQUENCE value
MediaSequence(p) ==
    IF Len(pms[p].segments) > 0 THEN pms[p].segments[1].SequenceNum ELSE 0


\* PlaylistManager.addFrame
addFrame(pm, frame) ==
    [pm EXCEPT !.hasKeyFrame = @ \/ (frame.IsVideo /\ frame.IsKeyFrame),
               !.frames = Append(@, frame)]

\* finalizeSegment's guard, were it to look at the number of frames only
NoFrames(pm) == Len(pm.frames) = 0

\* finalizeSegment's guard: "Don't create segment if no frames or no keyframe"
NothingToFinalize(pm) == Len(pm.frames) = 0 \/ ~pm.hasKeyFrame

\* the sliding window of finalizeSegment: drop the oldest beyond maxSegments
SlidingWindow(segments) ==
    IF Len(segments) > MaxSegments THEN Tail(segments) ELSE segments

\* the segment finalizeSegment evicts, as a set of paths to delete
Evicted(segments) ==
    IF Len(segments) > MaxSegments THEN {segments[1].FilePath} ELSE {}

\* PlaylistManager.finalizeSegment, were it to leave hasInit as it is
FinalizedKeepsHasInit(pm, writeOK) ==
    LET segmentNum == pm.sequenceNumber
        segment == [StreamKey |-> pm.streamKey, SequenceNum |-> segmentNum,
                    FilePath |-> SegmentPath(pm.streamKey, segmentNum),
                    Duration |-> segmentDuration,
                    Data |-> pm.frames]
    IN  IF NothingToFinalize(pm) THEN pm
        ELSE IF ~writeOK THEN [pm EXCEPT !.sequenceNumber = segmentNum + 1,
                                         !.failed = @ \o pm.frames]
        ELSE [pm EXCEPT !.sequenceNumber = segmentNum + 1,
                        !.segments = SlidingWindow(Append(pm.segments, segment)),
                        !.recorded = Append(@, segmentNum),
                        !.frames = <<>>,
                        !.hasKeyFrame = FALSE]

\* PlaylistManager.finalizeSegment on the state of one PlaylistManager, with
\* the outcome of the segment write: the PlaylistManager it leaves
Finalized(pm, writeOK) ==
    LET segmentNum == pm.sequenceNumber
        segment == [StreamKey |-> pm.streamKey, SequenceNum |-> segmentNum,
                    FilePath |-> SegmentPath(pm.streamKey, segmentNum),
                    \* float64(segmentDuration.Seconds()), in milliseconds
                    Duration |-> segmentDuration,
                    Data |-> pm.frames]
    IN  IF NothingToFinalize(pm) THEN pm
        ELSE IF ~writeOK THEN [pm EXCEPT !.sequenceNumber = segmentNum + 1,
                                         !.failed = @ \o pm.frames]
        ELSE [pm EXCEPT !.sequenceNumber = segmentNum + 1,
                        !.segments = SlidingWindow(Append(pm.segments, segment)),
                        !.recorded = Append(@, segmentNum),
                        !.hasInit = TRUE,
                        !.frames = <<>>,
                        !.hasKeyFrame = FALSE]

\* PlaylistManager.finalizeSegment (with createInitSegment), given the outcomes
\* of its storage writes; exits: processFrames returns after this call
finalizeSegment(p, writeOK, initOK, exits) ==
    LET pm == pms[p]
        path == SegmentPath(pm.streamKey, pm.sequenceNumber)
        attempts == ~NothingToFinalize(pm)
        writesInit == attempts /\ writeOK /\ ~pm.hasInit
        failures == (IF attempts /\ ~writeOK THEN 1 ELSE 0)
                    + (IF writesInit /\ ~initOK THEN 1 ELSE 0)
    IN  /\ writeFailures + failures <= MaxWriteFailures
        /\ writeFailures' = writeFailures + failures
        /\ pms' = [pms EXCEPT ![p] =
                      [Finalized(pm, writeOK) EXCEPT
                          !.running = ~exits,
                          !.written = @ \o (IF attempts /\ writeOK THEN <<path>> ELSE <<>>)
                                        \o (IF writesInit /\ initOK
                                            THEN <<InitPath(pm.streamKey)>> ELSE <<>>)]]
        /\ storage' = storage
                \cup (IF attempts /\ writeOK THEN {path} ELSE {})
                \cup (IF writesInit /\ initOK THEN {InitPath(pm.streamKey)} ELSE {})
        /\ pendingDeletes' = pendingDeletes
                \cup (IF attempts /\ writeOK
                      THEN Evicted(Append(pm.segments, [FilePath |-> path]))
                      ELSE {})

\* processFrames: case frame, ok := <-frameChan with ok true
WorkerReceive(p) ==
    /\ ~panicked
    /\ pms[p].running
    /\ chans[pms[p].ch].buf # <<>>
    /\ pms' = [pms EXCEPT ![p] = addFrame(@, Head(chans[pms[p].ch].buf))]
    /\ chans' = [chans EXCEPT ![pms[p].ch].buf = Tail(@),
                              ![pms[p].ch].got = Append(@, Head(chans[pms[p].ch].buf).Inv)]
    /\ UNCHANGED <<authVars, objs, streams, subscribers, playlists, storage,
                   pendingDeletes, writeFailures, conn, invoked, panicked>>
    /\ UNCHANGED byteVars

\* processFrames: case <-ticker.C
WorkerTick(p) ==
    /\ ~panicked
    /\ pms[p].running
    /\ \E writeOK, initOK \in BOOLEAN : finalizeSegment(p, writeOK, initOK, FALSE)
    /\ UNCHANGED <<authVars, regVars, playlists, conn, invoked, panicked>>
    /\ UNCHANGED byteVars

\* processFrames: the channel is closed and drained; finalize and return
WorkerClosed(p) ==
    /\ ~panicked
    /\ pms[p].running
    /\ chans[pms[p].ch].closed
    /\ chans[pms[p].ch].buf = <<>>
    /\ \E writeOK, initOK \in BOOLEAN : finalizeSegment(p, writeOK, initOK, TRUE)
    /\ UNCHANGED <<authVars, regVars, playlists, conn, invoked, panicked>>
    /\ UNCHANGED byteVars

\* go pm.segmenter.storage.Delete(oldSegment.FilePath)
StorageDelete(path) ==
    /\ ~panicked
    /\ path \in pendingDeletes
    /\ pendingDeletes' = pendingDeletes \ {path}
    /\ storage' = storage \ {path}
    /\ UNCHANGED <<authVars, regVars, playlists, pms, writeFailures, conn,
                   invoked, panicked>>
    /\ UNCHANGED byteVars


\* Segmenter.StartSegmenting: a PlaylistManager, its subscription (Subscribe
\* appends a new channel to the key's list) and its worker
StartSegmenting(streamKey) ==
    IF playlists[streamKey] # NoObj
    THEN UNCHANGED <<playlists, pms, subscribers, chans>>
    ELSE LET ch == Len(chans) + 1
             p == Len(pms) + 1
         IN  /\ chans' = Append(chans, [buf |-> <<>>, closed |-> FALSE, got |-> <<>>,
                                            \* history: close(ch) calls
                                            closes |-> 0])
             /\ subscribers' = [subscribers EXCEPT ![streamKey] = Append(@, ch)]
             /\ pms' = Append(pms, NewPlaylistManager(streamKey, ch))
             /\ playlists' = [playlists EXCEPT ![streamKey] = p]

\* Segmenter.StopSegmenting, the variant without the "exists" check: it runs
\* the cleanup of the key's last PlaylistManager again, and the cleanup closes
\* its channel whether or not the key still lists it
StopSegmentingAgain(streamKey) ==
    LET ps == {p \in DOMAIN pms : pms[p].streamKey = streamKey}
    IN  IF ps = {} THEN UNCHANGED <<playlists, subscribers, chans, panicked>>
        ELSE LET ch == pms[CHOOSE p \in ps : \A q \in ps : q <= p].ch
             IN  /\ playlists' = [playlists EXCEPT ![streamKey] = NoObj]
                 /\ subscribers' = [subscribers EXCEPT ![streamKey] = Remove(@, ch)]
                 /\ chans' = CloseAll({ch})
                 /\ panicked' = (panicked \/ DoubleClose({ch}))

\* Segmenter.StopSegmenting: pm.cleanup() is unsubscribe(streamKey, ch), which
\* removes and closes the channel if the key still lists it
StopSegmenting(streamKey) ==
    IF playlists[streamKey] = NoObj
    THEN UNCHANGED <<playlists, subscribers, chans, panicked>>
    ELSE LET ch == pms[playlists[streamKey]].ch
         IN  /\ playlists' = [playlists EXCEPT ![streamKey] = NoObj]
             /\ IF ch \in Range(subscribers[streamKey])
                THEN /\ subscribers' = [subscribers EXCEPT ![streamKey] = Remove(@, ch)]
                     /\ chans' = CloseAll({ch})
                     /\ panicked' = (panicked \/ DoubleClose({ch}))
                ELSE UNCHANGED <<subscribers, chans, panicked>>

\* Manager.StopStream with a closeSubscribers that closes the channels and
\* keeps the key's list
StopStreamKeepsList(streamKey) ==
    /\ objs' = SetState(objs, streams[streamKey], "stopped")
    /\ chans' = CloseAll(Range(subscribers[streamKey]))
    /\ panicked' = (panicked \/ DoubleClose(Range(subscribers[streamKey])))
    /\ subscribers' = subscribers

\* Manager.StopStream on a key that has a stream: SetState(Stopped) on the
\* key's current object, then closeSubscribers
StopStream(streamKey) ==
    /\ objs' = SetState(objs, streams[streamKey], "stopped")
    /\ chans' = CloseAll(Range(subscribers[streamKey]))
    /\ panicked' = (panicked \/ DoubleClose(Range(subscribers[streamKey])))
    /\ subscribers' = [subscribers EXCEPT ![streamKey] = <<>>]

\* Manager.DeleteStream: closeSubscribers, then delete(m.streams, streamKey)
DeleteStream(streamKey) ==
    /\ ~panicked
    /\ chans' = CloseAll(Range(subscribers[streamKey]))
    /\ panicked' = (panicked \/ DoubleClose(Range(subscribers[streamKey])))
    /\ subscribers' = [subscribers EXCEPT ![streamKey] = <<>>]
    /\ streams' = [streams EXCEPT ![streamKey] = NoObj]
    /\ UNCHANGED <<authVars, objs, segVars, conn, invoked>>
    /\ UNCHANGED byteVars

\* POST /api/v1/streams/:streamKey/stop
handleStopStream(streamKey) ==
    /\ ~panicked
    /\ streams[streamKey] # NoObj
    /\ StopStream(streamKey)
    /\ UNCHANGED <<authVars, streams, segVars, conn, invoked>>
    /\ UNCHANGED byteVars


(***************************************************************************)
(* rtmp.ConnHandler.  go-rtmp runs the handlers of one connection one      *)
(* after the other; handlers of different connections, the HTTP handlers   *)
(* and the segmenter workers run concurrently.                             *)
(***************************************************************************)

NoFrame == [StreamKey |-> "", IsVideo |-> FALSE, IsKeyFrame |-> FALSE,
            Timestamp |-> 0, Payload |-> <<>>, Inv |-> 0]

\* the ConnHandler onConnect allocates
NewConnHandler ==
    [pc |-> "new", streamKey |-> "", publishToken |-> NoToken, stream |-> NoObj,
     hasSPSPPS |-> FALSE, sent |-> 0,
     \* locals of the running handler
     tok |-> NoToken, frame |-> NoFrame, pubStream |-> NoObj, snap |-> <<>>,
     \* history, not read by the code
     validated |-> FALSE, deadAtCall |-> FALSE, result |-> "none",
     teardown |-> <<>>,
     \* history: the PlaylistManager its StartSegmenting call created
     started |-> NoObj]

\* the token was consumed, or its expiry has passed
Dead(t) == tokObjs[t].IsUsed \/ now > tokObjs[t].ExpiresAt

\* OnPublish up to ValidateToken's map lookup (under RLock), or up to
\* CreateStream when the publishing name carries no token
OnPublish(c, streamKey, token) ==
    /\ ~panicked
    /\ conn[c].pc = "new"
    /\ conn' = [conn EXCEPT ![c].streamKey = streamKey,
                            ![c].publishToken = token,
                            ![c].tok = IF token \in tokens THEN token ELSE NoToken,
                            ![c].deadAtCall = (token # NoToken /\ Dead(token)),
                            ![c].pc = IF token # NoToken THEN "validate" ELSE "create"]
    /\ UNCHANGED <<authVars, regVars, segVars, invoked, panicked>>
    /\ UNCHANGED byteVars

\* ValidateToken, were it to consume the token it looked up before it checks
\* it
ValidateTokenConsuming(c) ==
    /\ ~panicked
    /\ conn[c].pc = "validate"
    /\ LET t == conn[c].tok
           ok == /\ t # NoToken
                 /\ IsValid(t)
                 /\ tokObjs[t].StreamKey = conn[c].streamKey
       IN  /\ conn' = [conn EXCEPT ![c].validated = ok,
                                   ![c].result = IF ok THEN @ ELSE "error",
                                   ![c].pc = IF ok THEN "mark" ELSE "rejected"]
           /\ tokObjs' = IF t # NoToken
                         THEN [tokObjs EXCEPT ![t].IsUsed = TRUE]
                         ELSE tokObjs
    /\ UNCHANGED <<now, ticks, tokens, cleanupAt, regVars, segVars, invoked, panicked>>
    /\ UNCHANGED byteVars

\* ValidateToken after RUnlock: the checks on the token object
ValidateToken(c) ==
    /\ ~panicked
    /\ conn[c].pc = "validate"
    /\ LET t == conn[c].tok
           ok == /\ t # NoToken
                 /\ IsValid(t)
                 /\ tokObjs[t].StreamKey = conn[c].streamKey
       IN  conn' = [conn EXCEPT ![c].validated = ok,
                                ![c].result = IF ok THEN @ ELSE "error",
                                ![c].pc = IF ok THEN "mark" ELSE "rejected"]
    /\ UNCHANGED <<authVars, regVars, segVars, invoked, panicked>>
    /\ UNCHANGED byteVars

\* MarkTokenUsed
MarkTokenUsed(c) ==
    /\ ~panicked
    /\ conn[c].pc = "mark"
    /\ tokObjs' = IF conn[c].publishToken \in tokens
                  THEN [tokObjs EXCEPT ![conn[c].publishToken].IsUsed = TRUE]
                  ELSE tokObjs
    /\ conn' = [conn EXCEPT ![c].pc = "create"]
    /\ UNCHANGED <<now, ticks, tokens, cleanupAt, regVars, segVars, invoked, panicked>>
    /\ UNCHANGED byteVars

\* Manager.CreateStream, and h.stream = stream
CreateStream(c) ==
    /\ ~panicked
    /\ conn[c].pc = "create"
    /\ IF AlreadyLive(conn[c].streamKey)
       THEN /\ conn' = [conn EXCEPT ![c].pc = "rejected", ![c].result = "error"]
            /\ UNCHANGED <<objs, streams>>
       ELSE /\ objs' = Append(objs, NewStream(conn[c].streamKey, c))
            /\ streams' = [streams EXCEPT ![conn[c].streamKey] = Len(objs) + 1]
            /\ conn' = [conn EXCEPT ![c].stream = Len(objs) + 1, ![c].pc = "setLive"]
    /\ UNCHANGED <<authVars, subscribers, chans, segVars, invoked, panicked>>
    /\ UNCHANGED byteVars

\* stream.SetState(models.StreamStateLive)
OnPublishSetLive(c) ==
    /\ ~panicked
    /\ conn[c].pc = "setLive"
    /\ objs' = SetState(objs, conn[c].stream, "live")
    /\ conn' = [conn EXCEPT ![c].pc = "startSeg"]
    /\ UNCHANGED <<authVars, streams, subscribers, chans, segVars, invoked, panicked>>
    /\ UNCHANGED byteVars

\* h.segmenter.StartSegmenting(streamKey); OnPublish returns nil
OnPublishStartSegmenting(c) ==
    /\ ~panicked
    /\ conn[c].pc = "startSeg"
    /\ StartSegmenting(conn[c].streamKey)
    /\ conn' = [conn EXCEPT ![c].pc = "ready", ![c].result = "ok",
                            ![c].started = IF playlists[conn[c].streamKey] = NoObj
                                           THEN Len(pms) + 1 ELSE NoObj]
    /\ UNCHANGED <<authVars, objs, streams, storage, pendingDeletes, writeFailures,
                   invoked, panicked>>
    /\ UNCHANGED byteVars

\* OnClose's guard, the variant that does not look at h.stream
HoldsStreamKey(h) == h.streamKey # ""

\* OnClose's guard: h.stream != nil && h.streamKey != ""
HoldsStream(h) == h.stream # NoObj /\ h.streamKey # ""

\* OnClose: StopSegmenting when the handler holds a stream
OnClose(c) ==
    /\ ~panicked
    /\ conn[c].pc \in {"new", "rejected", "ready"}
    /\ IF HoldsStream(conn[c])
       THEN /\ StopSegmenting(conn[c].streamKey)
            /\ conn' = [conn EXCEPT ![c].pc = "stopStream",
                                    ![c].teardown = Append(@, "StopSegmenting")]
       ELSE /\ conn' = [conn EXCEPT ![c].pc = "closed"]
            /\ UNCHANGED <<playlists, subscribers, chans, panicked>>
    /\ UNCHANGED <<authVars, objs, streams, pms, storage, pendingDeletes,
                   writeFailures, invoked>>
    /\ UNCHANGED byteVars

\* OnClose: h.streamManager.StopStream(h.streamKey)
OnCloseStopStream(c) ==
    /\ ~panicked
    /\ conn[c].pc = "stopStream"
    /\ IF streams[conn[c].streamKey] # NoObj
       THEN StopStream(conn[c].streamKey)
       ELSE UNCHANGED <<objs, chans, subscribers, panicked>>
    /\ conn' = [conn EXCEPT ![c].pc = "closed",
                            ![c].teardown = Append(@, "StopStream")]
    /\ UNCHANGED <<authVars, streams, segVars, invoked>>
    /\ UNCHANGED byteVars


\* the video messages a publisher sends: the AVC sequence header, a keyframe
\* (frame type 1) with one IDR NAL unit, an inter frame with one non-IDR unit
VideoKinds == {"seqhdr", "key", "inter"}

\* ConvertAVCCToAnnexB of the message body, as the list of its NAL units
AnnexB(kind) == IF kind = "key" THEN <<"IDR">> ELSE <<"nonIDR">>

\* PrependSPSPPSAnnexB: every SPS, every PPS, then the frame's own units
PrependSPSPPSAnnexB(frameData) == <<"SPS", "PPS">> \o frameData

\* OnVideo's payload: SPS/PPS are prepended to a keyframe when they are stored
FrameData(kind, hasSPSPPS) ==
    IF kind = "key" /\ hasSPSPPS THEN PrependSPSPPSAnnexB(AnnexB(kind))
    ELSE AnnexB(kind)

\* PublishFrame up to GetStream (under m.mu.RLock)
PublishFrameGetStream(c, frame) ==
    /\ invoked' = invoked + 1
    /\ conn' = [conn EXCEPT
                  ![c].sent = @ + 1,
                  ![c].frame = [frame EXCEPT !.Inv = invoked + 1],
                  ![c].pubStream = streams[frame.StreamKey],
                  ![c].pc = IF streams[frame.StreamKey] # NoObj
                            THEN "pubStats" ELSE "ready"]

\* OnVideo: a sequence header is stored on the handler; any other message
\* becomes a Frame handed to PublishFrame
OnVideo(c, kind, limit) ==
    /\ ~panicked
    /\ conn[c].pc = "ready"
    /\ conn[c].sent < limit
    /\ IF kind = "seqhdr"
       THEN /\ conn' = [conn EXCEPT ![c].hasSPSPPS = TRUE, ![c].sent = @ + 1]
            /\ UNCHANGED invoked
       ELSE PublishFrameGetStream(c,
                [StreamKey |-> conn[c].streamKey, IsVideo |-> TRUE,
                 IsKeyFrame |-> (kind = "key"), Timestamp |-> conn[c].sent,
                 Payload |-> FrameData(kind, conn[c].hasSPSPPS), Inv |-> 0])
    /\ UNCHANGED <<authVars, regVars, segVars, panicked>>
    /\ UNCHANGED byteVars

\* OnAudio: the message becomes an audio Frame handed to PublishFrame
OnAudio(c, limit) ==
    /\ ~panicked
    /\ conn[c].pc = "ready"
    /\ conn[c].sent < limit
    /\ PublishFrameGetStream(c,
           [StreamKey |-> conn[c].streamKey, IsVideo |-> FALSE,
            IsKeyFrame |-> FALSE, Timestamp |-> conn[c].sent,
            Payload |-> <<"aac">>, Inv |-> 0])
    /\ UNCHANGED <<authVars, regVars, segVars, panicked>>
    /\ UNCHANGED byteVars

\* PublishFrame: stream.UpdateStats(frame)
PublishFrameUpdateStats(c) ==
    /\ ~panicked
    /\ conn[c].pc = "pubStats"
    /\ objs' = UpdateStats(objs, conn[c].pubStream, conn[c].frame)
    /\ conn' = [conn EXCEPT ![c].pc = "pubSnap"]
    /\ UNCHANGED <<authVars, streams, subscribers, chans, segVars, invoked, panicked>>
    /\ UNCHANGED byteVars

\* PublishFrame: the subscriber list read under subMu.RLock
PublishFrameSubscribers(c) ==
    /\ ~panicked
    /\ conn[c].pc = "pubSnap"
    /\ LET subs == subscribers[conn[c].frame.StreamKey]
       IN  conn' = [conn EXCEPT ![c].snap = subs,
                                ![c].pc = IF subs = <<>> THEN "ready" ELSE "pubSend"]
    /\ UNCHANGED <<authVars, regVars, segVars, invoked, panicked>>
    /\ UNCHANGED byteVars

\* PublishFrame: one iteration of the loop over the subscriber list: the
\* non-blocking send, or IncrementDroppedFrames when the channel is full.
\* A send on a closed channel panics.
PublishFrameSend(c) ==
    /\ ~panicked
    /\ conn[c].pc = "pubSend"
    /\ LET ch == Head(conn[c].snap)
           rest == Tail(conn[c].snap)
       IN  IF chans[ch].closed
           THEN /\ panicked' = TRUE
                /\ conn' = [conn EXCEPT ![c].pc = "panic"]
                /\ UNCHANGED <<objs, chans>>
           ELSE /\ IF CanSend(ch, conn[c].frame)
                   THEN /\ chans' = [chans EXCEPT ![ch].buf = Append(@, conn[c].frame)]
                        /\ UNCHANGED objs
                   ELSE /\ objs' = IncrementDroppedFrames(objs, conn[c].pubStream)
                        /\ UNCHANGED chans
                /\ conn' = [conn EXCEPT ![c].snap = rest,
                                        ![c].pc = IF rest = <<>> THEN "ready"
                                                  ELSE "pubSend"]
                /\ UNCHANGED panicked
    /\ UNCHANGED <<authVars, streams, subscribers, segVars, invoked>>
    /\ UNCHANGED byteVars

(***************************************************************************)
(* muxer: H.264 byte streams.  A byte is a number in 0..255; a []byte is a *)
(* sequence of bytes.  Offsets are 0-based as in the code.                 *)
(***************************************************************************)

NALUnitTypeSPS == 7
NALUnitTypePPS == 8
NALUnitTypeIDR == 5
StartCode4 == <<0, 0, 0, 1>>
StartCode3 == <<0, 0, 1>>

\* binary.BigEndian.Uint16 / Uint32 of a 2- or 4-byte slice
RECURSIVE BigEndian(_)
BigEndian(b) ==
    IF b = <<>> THEN 0
    ELSE BigEndian(SubSeq(b, 1, Len(b) - 1)) * 256 + b[Len(b)]

\* data[from:to], Go's half-open slice
Slice(data, from, to) == SubSeq(data, from + 1, to)

\* a function result: the error return, and the value when there is none
Failed == [err |-> TRUE, data |-> <<>>]
Returned(data) == [err |-> FALSE, data |-> data]

\* ConvertAVCCToAnnexB: the start code written before a NAL unit
StartCodeFor(nalUnit) ==
    LET nalType == nalUnit[1] % 32
    IN  IF nalType \in {NALUnitTypeSPS, NALUnitTypePPS, NALUnitTypeIDR}
        THEN StartCode4 ELSE StartCode3

\* ConvertAVCCToAnnexB: the loop, from offset with annexB written so far
RECURSIVE ConvertLoop(_, _, _, _)
ConvertLoop(avccData, offset, annexB, nalCount) ==
    IF ~(offset < Len(avccData)) \/ offset + 4 > Len(avccData)
    THEN IF nalCount = 0 THEN Failed ELSE Returned(annexB)
    ELSE LET nalSize == BigEndian(Slice(avccData, offset, offset + 4))
             o == offset + 4
         IN  IF nalSize = 0 THEN ConvertLoop(avccData, o, annexB, nalCount)
             ELSE IF o + nalSize > Len(avccData)
                  THEN Failed
             ELSE LET nalUnit == Slice(avccData, o, o + nalSize)
                  IN  ConvertLoop(avccData, o + nalSize,
                                  annexB \o StartCodeFor(nalUnit) \o nalUnit,
                                  nalCount + 1)

\* ConvertAVCCToAnnexB
ConvertAVCCToAnnexB(avccData) ==
    IF Len(avccData) = 0 THEN Failed ELSE ConvertLoop(avccData, 0, <<>>, 0)

\* ExtractSPSandPPS, its scan of Annex-B data: the length of the start code
\* at offset, 0 when there is none
StartCodeLen(annexBData, offset) ==
    IF /\ offset + 4 <= Len(annexBData)
       /\ Slice(annexBData, offset, offset + 4) = StartCode4 THEN 4
    ELSE IF /\ offset + 3 <= Len(annexBData)
            /\ Slice(annexBData, offset, offset + 3) = StartCode3 THEN 3
    ELSE 0

\* ExtractSPSandPPS: "Find next start code to get NAL length"
RECURSIVE NextStart(_, _)
NextStart(annexBData, nextStart) ==
    IF nextStart < Len(annexBData) /\ StartCodeLen(annexBData, nextStart) = 0
    THEN NextStart(annexBData, nextStart + 1)
    ELSE nextStart

\* ExtractSPSandPPS: the NAL units its loop over Annex-B data extracts
RECURSIVE ScanAnnexB(_, _)
ScanAnnexB(annexBData, offset) ==
    IF ~(offset < Len(annexBData)) THEN <<>>
    ELSE LET startCodeLen == StartCodeLen(annexBData, offset)
             o == offset + startCodeLen
         IN  IF startCodeLen = 0 THEN ScanAnnexB(annexBData, offset + 1)
             ELSE IF o >= Len(annexBData) THEN <<>>
             ELSE LET nextStart == NextStart(annexBData, o + 1)
                      nalUnit == Slice(annexBData, o, nextStart)
                  IN  (IF Len(nalUnit) > 0 THEN <<nalUnit>> ELSE <<>>)
                      \o ScanAnnexB(annexBData, nextStart)

\* ParseFLVVideoPacket
ParseFLVVideoPacket(data) ==
    IF Len(data) < 5 \/ data[1] % 16 # 7
    THEN [err |-> TRUE, isSequenceHeader |-> FALSE, isKeyFrame |-> FALSE,
          avcData |-> <<>>]
    ELSE [err |-> FALSE,
          isSequenceHeader |-> (data[2] = 0),
          isKeyFrame |-> ((data[1] \div 16) % 16 = 1),
          avcData |-> Slice(data, 5, Len(data))]

\* ParseAVCDecoderConfigurationRecord: n parameter sets, each a 2-byte length
\* and that many bytes, read from pos on.  bytes.Reader.Read returns io.EOF
\* at the end of the data and otherwise copies what is left, and a short
\* copy is an error
RECURSIVE ReadParameterSets(_, _, _, _)
ReadParameterSets(data, pos, n, sets) ==
    IF n = 0 THEN [err |-> FALSE, sets |-> sets, pos |-> pos]
    ELSE IF pos + 2 > Len(data) THEN [err |-> TRUE, sets |-> <<>>, pos |-> pos]
    ELSE LET length == BigEndian(Slice(data, pos, pos + 2))
             p == pos + 2
         IN  IF p >= Len(data) \/ p + length > Len(data)
             THEN [err |-> TRUE, sets |-> <<>>, pos |-> p]
             ELSE ReadParameterSets(data, p + length, n - 1,
                                    Append(sets, Slice(data, p, p + length)))

\* the result of a failed parse
NoRecord == [err |-> TRUE, NALUnitLength |-> 0, SPS |-> <<>>, PPS |-> <<>>]

\* ParseAVCDecoderConfigurationRecord
ParseAVCDecoderConfigurationRecord(data) ==
    IF Len(data) < 11 THEN NoRecord
    ELSE LET nalUnitLength == (data[5] % 4) + 1
             numOfSPS == data[6] % 32
             sps == ReadParameterSets(data, 6, numOfSPS, <<>>)
         IN  IF sps.err \/ ~(sps.pos < Len(data))
             THEN NoRecord
             ELSE LET numOfPPS == data[sps.pos + 1]
                      pps == ReadParameterSets(data, sps.pos + 1, numOfPPS, <<>>)
                  IN  IF pps.err THEN NoRecord
                      ELSE [err |-> FALSE, NALUnitLength |-> nalUnitLength,
                            SPS |-> sps.sets, PPS |-> pps.sets]

\* PrependSPSPPSAnnexB: a 4-byte start code and the set, for every set
RECURSIVE WithStartCodes(_)
WithStartCodes(sets) ==
    IF sets = <<>> THEN <<>>
    ELSE StartCode4 \o Head(sets) \o WithStartCodes(Tail(sets))

\* PrependSPSPPSAnnexB
PrependSPSPPS(frameData, sps, pps) ==
    WithStartCodes(sps) \o WithStartCodes(pps) \o frameData


(***************************************************************************)
(* ConnHandler.OnVideo at the level of bytes                               *)
(***************************************************************************)

\* the first five bytes of an FLV video message: frame type and codec id 7
\* (AVC), the AVCPacketType, the composition time
FLVHeader(frameType, avcPacketType) == <<frameType * 16 + 7, avcPacketType, 0, 0, 0>>

\* NAL units a publisher sends: an IDR slice (type 5), a non-IDR slice (type
\* 1), an SPS (type 7), a PPS (type 8)
IDR == <<101>>
NonIDR == <<65, 9>>
SPS1 == <<103, 66>>
PPS1 == <<104>>
PPS3 == <<104, 1, 2>>
\* bytes a publisher can put behind a length prefix: a unit that ends in a
\* zero byte, a unit that holds the bytes 00 00 01
ZeroEnded == <<65, 0>>
Emulating == <<65, 0, 0, 1, 9>>

\* the number n as a big-endian length prefix of size bytes
LengthPrefix(n, size) == [i \in 1..size |-> IF i = size THEN n ELSE 0]

\* NAL units, each behind a length prefix of size bytes declaring its length
\* plus excess
RECURSIVE LengthPrefixed(_, _, _)
LengthPrefixed(nals, size, excess) ==
    IF nals = <<>> THEN <<>>
    ELSE LengthPrefix(Len(Head(nals)) + excess, size) \o Head(nals)
         \o LengthPrefixed(Tail(nals), size, excess)

\* an AVCDecoderConfigurationRecord declaring NAL-length-size size
ConfigRecord(size, sps, pps) ==
    <<1, 66, 0, 30, 252 + (size - 1), 224 + Len(sps)>> \o LengthPrefixed(sps, 2, 0)
    \o <<Len(pps)>> \o LengthPrefixed(pps, 2, 0)

\* the sequence headers a publisher sends
SequenceHeaders ==
    {FLVHeader(1, 0) \o ConfigRecord(size, <<SPS1>>, <<PPS1>>) : size \in 1..4}
    \cup {FLVHeader(1, 0) \o ConfigRecord(4, <<>>, <<PPS3>>)}

\* the AVCPacketType = 1 messages a publisher sends: well-formed bodies with
\* length prefixes of 4, 1 and 2 bytes, zero-length units, a declared length
\* one more than what is left, bytes left over after the last unit, units
\* whose bytes look like a start code, a message of the 5 header bytes alone
NALUMessages ==
    {FLVHeader(1, 1) \o LengthPrefixed(<<IDR>>, 4, 0),
     FLVHeader(1, 1) \o LengthPrefixed(<<IDR>>, 1, 0),
     FLVHeader(1, 1) \o LengthPrefixed(<<IDR>>, 4, 1),
     FLVHeader(2, 1) \o LengthPrefixed(<<NonIDR>>, 4, 0),
     FLVHeader(2, 1) \o LengthPrefixed(<<NonIDR, NonIDR>>, 2, 0),
     FLVHeader(2, 1) \o LengthPrefix(0, 4) \o LengthPrefixed(<<NonIDR>>, 4, 0),
     FLVHeader(2, 1) \o LengthPrefix(0, 4),
     FLVHeader(2, 1) \o LengthPrefixed(<<ZeroEnded, NonIDR>>, 4, 0),
     FLVHeader(2, 1) \o LengthPrefixed(<<Emulating>>, 4, 0),
     FLVHeader(1, 1),
     FLVHeader(2, 1) \o LengthPrefixed(<<NonIDR>>, 4, 0)
                     \o LengthPrefixed(<<NonIDR>>, 4, 1),
     FLVHeader(2, 1) \o LengthPrefixed(<<NonIDR>>, 4, 0) \o <<0, 0>>}

\* the video messages of a publisher; the last is too short to be parsed
VideoMessages == SequenceHeaders \cup NALUMessages \cup {<<23, 1>>}

\* the video fields of the ConnHandler onConnect allocates
NewVideoState ==
    [c \in Conns |->
        [sps |-> <<>>, pps |-> <<>>, naluLength |-> 0,
         \* history, not read by the code: one entry per OnVideo call
         log |-> <<>>]]

\* what one OnVideo call did: the message, the handler's fields when it was
\* called, the results of the muxer calls it made, and the Frame it handed to
\* PublishFrame if it handed one
LogEntry(data, v, record, conv, handed, annexBData, payload) ==
    [msg |-> data, sps |-> v.sps, pps |-> v.pps, naluLength |-> v.naluLength,
     record |-> record, conv |-> conv, handed |-> handed,
     annexBData |-> annexBData, payload |-> payload]

NotCalled == [err |-> FALSE, called |-> FALSE]

\* ConnHandler.OnVideo up to PublishFrame's GetStream
OnVideoPacket(c, data, limit) ==
    /\ ~panicked
    /\ conn[c].pc \in {"new", "rejected", "ready"}
    /\ conn[c].sent < limit
    /\ LET v == video[c]
           pk == ParseFLVVideoPacket(data)
           record == ParseAVCDecoderConfigurationRecord(pk.avcData)
           conv == ConvertAVCCToAnnexB(pk.avcData)
           \* "Fall back to original data"
           annexBData == IF conv.err THEN pk.avcData ELSE conv.data
           frameData == IF pk.isKeyFrame /\ Len(v.sps) > 0 /\ Len(v.pps) > 0
                        THEN PrependSPSPPS(annexBData, v.sps, v.pps)
                        ELSE annexBData
       IN  IF conn[c].stream = NoObj \/ Len(data) = 0 \/ pk.err
           THEN /\ conn' = [conn EXCEPT ![c].sent = @ + 1]
                /\ video' = [video EXCEPT ![c].log = Append(@,
                      LogEntry(data, v, NotCalled, NotCalled, FALSE, <<>>, <<>>))]
                /\ UNCHANGED invoked
           ELSE IF pk.isSequenceHeader
           THEN /\ conn' = [conn EXCEPT ![c].sent = @ + 1]
                /\ video' = [video EXCEPT
                      ![c].sps = IF record.err THEN @ ELSE record.SPS,
                      ![c].pps = IF record.err THEN @ ELSE record.PPS,
                      ![c].naluLength = IF record.err THEN @ ELSE record.NALUnitLength,
                      ![c].log = Append(@,
                          LogEntry(data, v, record, NotCalled, FALSE, <<>>, <<>>))]
                /\ UNCHANGED invoked
           ELSE /\ PublishFrameGetStream(c,
                     [StreamKey |-> conn[c].streamKey, IsVideo |-> TRUE,
                      IsKeyFrame |-> pk.isKeyFrame, Timestamp |-> conn[c].sent,
                      Payload |-> frameData, Inv |-> 0])
                /\ video' = [video EXCEPT ![c].log = Append(@,
                      LogEntry(data, v, NotCalled, conv, TRUE, annexBData, frameData))]
    /\ UNCHANGED <<authVars, regVars, segVars, panicked, segmentDuration, locking>>



(***************************************************************************)
(* The mutexes.  Each goroutine runs one call at a time; a call is the     *)
(* sequence of sync.RWMutex operations its code performs, in order, with   *)
(* the branches of the code as alternative sequences.  A deferred Unlock   *)
(* is the last operation of its function.                                  *)
(***************************************************************************)

\* the goroutines: one per connection (go-rtmp runs a connection's handlers
\* one after the other), one HTTP request, one segmentation worker
Goroutines == Conns \cup {"http", "worker"}

\* ConnHandler.mu of connection c
HMu(c) == IF c = "c1" THEN "c1.h.mu" ELSE "c2.h.mu"

\* mu.Lock(); body; mu.Unlock()
Critical(mu, body) ==
    <<[op |-> "Lock", mu |-> mu]>> \o body \o <<[op |-> "Unlock", mu |-> mu]>>

\* mu.RLock(); body; mu.RUnlock()
Reading(mu, body) ==
    <<[op |-> "RLock", mu |-> mu]>> \o body \o <<[op |-> "RUnlock", mu |-> mu]>>

\* auth.Manager: ValidateToken, MarkTokenUsed, GeneratePublishToken
ValidateTokenCalls == Reading("auth.mu", <<>>)
MarkTokenUsedCalls == Critical("auth.mu", <<>>)
GeneratePublishTokenCalls == Critical("auth.mu", <<>>)

\* Stream.SetState, Stream.UpdateStats, Stream.IncrementDroppedFrames
StreamCalls == Critical("stream.mu", <<>>)

\* Manager.Subscribe, Manager.unsubscribe, Manager.closeSubscribers
SubMuCalls == Critical("subMu", <<>>)

\* Segmenter.StartSegmenting: returns early when the key has a
\* PlaylistManager, else calls Subscribe
StartSegmentingCalls ==
    {Critical("s.mu", <<>>), Critical("s.mu", SubMuCalls)}

\* Segmenter.StopSegmenting: returns early when the key has no
\* PlaylistManager, else pm.cleanup() is unsubscribe
StopSegmentingCalls ==
    {Critical("s.mu", <<>>), Critical("s.mu", SubMuCalls)}

\* Manager.StopStream: returns early when the key has no stream, else
\* SetState and closeSubscribers
StopStreamCalls ==
    {Critical("m.mu", <<>>), Critical("m.mu", StreamCalls \o SubMuCalls)}

\* Manager.GetLiveStreams: GetState on every stream
GetLiveStreamsCalls == Reading("m.mu", Reading("stream.mu", <<>>))

\* Segmenter.GetPlaylist: generatePlaylist when the key has a PlaylistManager
GetPlaylistCalls ==
    {Reading("s.mu", <<>>), Reading("s.mu", Reading("pm.mu", <<>>))}

\* PlaylistManager.addFrame
addFrameCalls == Critical("pm.mu", Critical("currentSegment.mu", <<>>))

\* PlaylistManager.finalizeSegment: currentSegment.mu is released before the
\* segment is written
finalizeSegmentCalls == Critical("pm.mu", Critical("currentSegment.mu", <<>>))

\* Manager.PublishFrame, were it to look the stream up while it holds subMu
PublishFrameCallsHoldingSubMu ==
    {Reading("m.mu", <<>>)}
        \cup {Reading("subMu", Reading("m.mu", <<>>) \o StreamCalls) \o dropped :
                 dropped \in {<<>>, StreamCalls}}

\* Manager.PublishFrame: GetStream, UpdateStats, the subscriber list under
\* subMu, and IncrementDroppedFrames when a channel is full
PublishFrameCalls ==
    {Reading("m.mu", <<>>)}
        \cup {Reading("m.mu", <<>>) \o StreamCalls \o Reading("subMu", <<>>) \o dropped :
                 dropped \in {<<>>, StreamCalls}}

\* ConnHandler.OnPublish: the failed validation, the failed CreateStream and
\* the admission, with and without a token
OnPublishCalls(c) ==
    {Critical(HMu(c), ValidateTokenCalls)}
        \cup {Critical(HMu(c), token \o Critical("m.mu", <<>>) \o admitted) :
                 token \in {<<>>, ValidateTokenCalls \o MarkTokenUsedCalls},
                 admitted \in {<<>>} \cup {StreamCalls \o start :
                                              start \in StartSegmentingCalls}}

\* ConnHandler.OnVideo: no stream or no packet; a sequence header; a keyframe
\* and an inter frame
OnVideoCalls(c) ==
    {Reading(HMu(c), <<>>), Reading(HMu(c), <<>>) \o Critical(HMu(c), <<>>)}
        \cup {Reading(HMu(c), <<>>) \o sps \o publish :
                 sps \in {<<>>, Reading(HMu(c), <<>>)},
                 publish \in PublishFrameCalls}

\* ConnHandler.OnAudio
OnAudioCalls(c) ==
    {Reading(HMu(c), <<>>)}
        \cup {Reading(HMu(c), <<>>) \o publish : publish \in PublishFrameCalls}

\* ConnHandler.OnClose
OnCloseCalls(c) ==
    {Critical(HMu(c), <<>>)}
        \cup {Critical(HMu(c), stopSegmenting \o stopStream) :
                 stopSegmenting \in StopSegmentingCalls,
                 stopStream \in StopStreamCalls}

\* the calls goroutine g makes
Calls(g) ==
    IF g \in Conns
    THEN OnPublishCalls(g) \cup OnVideoCalls(g) \cup OnAudioCalls(g) \cup OnCloseCalls(g)
    ELSE IF g = "http"
    THEN StopStreamCalls \cup GetPlaylistCalls
            \cup {GetLiveStreamsCalls, GeneratePublishTokenCalls}
    ELSE {addFrameCalls, finalizeSegmentCalls}

NoCalls == [g \in Goroutines |-> <<>>]

\* the first operation on mu that goroutine g has left, "" if none
FirstOn(g, mu) ==
    LET is == {i \in DOMAIN locking[g] : locking[g][i].mu = mu}
    IN  IF is = {} THEN ""
        ELSE locking[g][CHOOSE i \in is : \A j \in is : i <= j].op

\* g holds mu: it has its release left before any acquisition
HeldW(g, mu) == FirstOn(g, mu) = "Unlock"
HeldR(g, mu) == FirstOn(g, mu) = "RUnlock"

\* g's next operation is op
At(g, op) == locking[g] # <<>> /\ Head(locking[g]).op = op

\* g has called mu.Lock() and has not got it
Pending(g, mu) == At(g, "Lock") /\ Head(locking[g]).mu = mu

\* RWMutex.Lock returns when no goroutine holds the mutex
CanLock(g) ==
    \A o \in Goroutines :
        ~HeldW(o, Head(locking[g]).mu) /\ ~HeldR(o, Head(locking[g]).mu)

\* RWMutex.RLock returns when no writer holds the mutex and none waits for it
CanRLock(g) ==
    \A o \in Goroutines :
        /\ ~HeldW(o, Head(locking[g]).mu)
        /\ o # g => ~Pending(o, Head(locking[g]).mu)

Proceed(g) ==
    /\ locking' = [locking EXCEPT ![g] = Tail(@)]
    /\ UNCHANGED <<authVars, regVars, segVars, conn, invoked, panicked,
                   segmentDuration, video>>

\* a handler, an HTTP request or a worker step begins
Call(g) ==
    /\ ~panicked
    /\ locking[g] = <<>>
    /\ \E call \in Calls(g) : locking' = [locking EXCEPT ![g] = call]
    /\ UNCHANGED <<authVars, regVars, segVars, conn, invoked, panicked,
                   segmentDuration, video>>

Lock(g) ==
    /\ ~panicked
    /\ At(g, "Lock")
    /\ CanLock(g)
    /\ Proceed(g)

RLock(g) ==
    /\ ~panicked
    /\ At(g, "RLock")
    /\ CanRLock(g)
    /\ Proceed(g)

Unlock(g) ==
    /\ ~panicked
    /\ At(g, "Unlock")
    /\ Proceed(g)

RUnlock(g) ==
    /\ ~panicked
    /\ At(g, "RUnlock")
    /\ Proceed(g)

(***************************************************************************)
(* The system                                                              *)
(***************************************************************************)

Init ==
    /\ now = 0
    /\ ticks = 0
    /\ tokObjs = <<>>
    /\ tokens = {}
    /\ cleanupAt = <<>>
    /\ objs = <<>>
    /\ streams = [k \in Keys |-> NoObj]
    /\ subscribers = [k \in Keys |-> <<>>]
    /\ chans = <<>>
    /\ playlists = [k \in Keys |-> NoObj]
    /\ pms = <<>>
    /\ storage = {}
    /\ pendingDeletes = {}
    /\ writeFailures = 0
    /\ conn = [c \in Conns |-> NewConnHandler]
    /\ invoked = 0
    /\ panicked = FALSE
    /\ segmentDuration = DefaultSegmentDuration
    /\ video = NewVideoState
    /\ locking = NoCalls


\* POST /publish, the clock and the token purges
AuthStep ==
    \/ \E k \in Keys, e \in ExpiresInChoices64 : GeneratePublishToken(k, e)
    \/ \E t \in DOMAIN tokObjs : cleanupToken(t)
    \/ CleanupExpiredTokens
    \/ Tick

\* connection c asks to publish on key k with one of the publishing names
\* key?token=t, t in toks (NoToken: the bare key), is admitted, and closes
PublishStep(c, k, toks) ==
    \/ \E t \in toks : OnPublish(c, k, t)
    \/ CreateStream(c)
    \/ OnPublishSetLive(c)
    \/ OnPublishStartSegmenting(c)
    \/ OnClose(c)
    \/ OnCloseStopStream(c)

\* the token checks of OnPublish
TokenStep(c) ==
    \/ ValidateToken(c)
    \/ MarkTokenUsed(c)

\* the media messages of connection c, at most limit of them
MediaStep(c, limit) ==
    \/ \E kind \in VideoKinds : OnVideo(c, kind, limit)
    \/ OnAudio(c, limit)
    \/ PublishFrameUpdateStats(c)
    \/ PublishFrameSubscribers(c)
    \/ PublishFrameSend(c)

\* the segmenter's goroutines
SegmenterStep ==
    \/ \E p \in DOMAIN pms : WorkerReceive(p)
    \/ \E p \in DOMAIN pms : WorkerTick(p)
    \/ \E p \in DOMAIN pms : WorkerClosed(p)
    \/ \E path \in pendingDeletes : StorageDelete(path)

\* Everything.  A panic ends the process: no action is enabled after it.
Next ==
    \/ AuthStep
    \/ \E c \in Conns, k \in Keys : PublishStep(c, k, {NoToken} \cup DOMAIN tokObjs)
    \/ \E c \in Conns : TokenStep(c)
    \/ \E c \in Conns : MediaStep(c, MaxSegMsgs)
    \/ \E c \in Conns, data \in VideoMessages : OnVideoPacket(c, data, MaxSegMsgs)
    \/ SegmenterStep
    \/ \E k \in Keys : handleStopStream(k)

Spec == Init /\ [][Next]_vars

\* Admission: tokens are issued for either key, expire and are purged while
\* two connections ask to publish on one key; no media is sent.
NextAdmission ==
    \/ AuthStep
    \/ \E c \in Conns : PublishStep(c, "live1", {NoToken} \cup DOMAIN tokObjs)
    \/ \E c \in Conns : TokenStep(c)
    \/ handleStopStream("live1")

SpecAdmission == Init /\ [][NextAdmission]_vars

\* Fan-out: two connections publish on one key without a token and send media
\* while the stream is stopped over HTTP and the worker drains its channel.
NextFanout ==
    \/ \E c \in Conns : PublishStep(c, "live1", {NoToken})
    \/ \E c \in Conns : MediaStep(c, MaxFanoutMsgs)
    \/ \E p \in DOMAIN pms : WorkerReceive(p)
    \/ handleStopStream("live1")

SpecFanout == Init /\ [][NextFanout]_vars

\* Segmentation: one connection publishes on one key and sends media while
\* the worker ticks, storage writes may fail and evicted segments are deleted.
NextSegmenter ==
    \/ PublishStep("c1", "live1", {NoToken})
    \/ MediaStep("c1", MaxSegMsgs)
    \/ SegmenterStep
    \/ handleStopStream("live1")

SpecSegmenter == Init /\ [][NextSegmenter]_vars

\* connections that publish on one key without a token and close, with the
\* HTTP stop
NextTeardown ==
    \/ \E c \in Conns : PublishStep(c, "live1", {NoToken})
    \/ handleStopStream("live1")

SpecTeardown == Init /\ [][NextTeardown]_vars

\* subscriptions: connections publish on one key without a token and close,
\* while the stream is stopped over HTTP and deleted from the registry
NextSubscribers ==
    \/ \E c \in Conns : PublishStep(c, "live1", {NoToken})
    \/ handleStopStream("live1")
    \/ DeleteStream("live1")

SpecSubscribers == Init /\ [][NextSubscribers]_vars

\* sessions: two connections publish on one key without a token and send
\* keyframes, the first one closes, and the workers tick, write and delete
NextSessions ==
    \/ \E c \in Conns : OnPublish(c, "live1", NoToken)
    \/ \E c \in Conns : CreateStream(c)
    \/ \E c \in Conns : OnPublishSetLive(c)
    \/ \E c \in Conns : OnPublishStartSegmenting(c)
    \/ OnClose("c1")
    \/ OnCloseStopStream("c1")
    \/ OnVideo("c1", "key", MaxSegMsgs)
    \/ OnVideo("c2", "key", MaxFanoutMsgs)
    \/ \E c \in Conns : PublishFrameUpdateStats(c)
    \/ \E c \in Conns : PublishFrameSubscribers(c)
    \/ \E c \in Conns : PublishFrameSend(c)
    \/ SegmenterStep

SpecSessions == Init /\ [][NextSessions]_vars

\* the mutexes: two connections, an HTTP request and a worker run their calls
NextLocks ==
    \/ \E g \in Goroutines : Call(g)
    \/ \E g \in Goroutines : Lock(g)
    \/ \E g \in Goroutines : RLock(g)
    \/ \E g \in Goroutines : Unlock(g)
    \/ \E g \in Goroutines : RUnlock(g)

SpecLocks == Init /\ [][NextLocks]_vars

\* token lifetimes: tokens are requested with any expires_in on two keys, a
\* connection presents them, and the clock and the purges run
NextLifetime ==
    \/ \E k \in Keys, e \in WideExpiresIn : GeneratePublishToken(k, e)
    \/ \E t \in DOMAIN tokObjs : cleanupToken(t)
    \/ CleanupExpiredTokens
    \/ Tick
    \/ PublishStep("c1", "live1", DOMAIN tokObjs)
    \/ TokenStep("c1")

SpecLifetime == Init /\ [][NextLifetime]_vars

\* rejection: connections publish on one key, each presenting a token issued
\* for one minute on either key, and send a keyframe message, admitted or not
NextRejection ==
    \/ \E k \in Keys : GeneratePublishToken(k, ToInt64(OneMinute))
    \/ Tick
    \/ \E c \in Conns : PublishStep(c, "live1", DOMAIN tokObjs)
    \/ \E c \in Conns : TokenStep(c)
    \/ \E c \in Conns :
           OnVideoPacket(c, FLVHeader(1, 1) \o LengthPrefixed(<<IDR>>, 4, 0),
                         MaxRejectedMsgs)
    \/ \E c \in Conns : PublishFrameUpdateStats(c)
    \/ \E c \in Conns : PublishFrameSubscribers(c)
    \/ \E c \in Conns : PublishFrameSend(c)

SpecRejection == Init /\ [][NextRejection]_vars

\* a Segmenter configured with one of the segment durations
InitConfigured ==
    /\ now = 0
    /\ ticks = 0
    /\ tokObjs = <<>>
    /\ tokens = {}
    /\ cleanupAt = <<>>
    /\ objs = <<>>
    /\ streams = [k \in Keys |-> NoObj]
    /\ subscribers = [k \in Keys |-> <<>>]
    /\ chans = <<>>
    /\ playlists = [k \in Keys |-> NoObj]
    /\ pms = <<>>
    /\ storage = {}
    /\ pendingDeletes = {}
    /\ writeFailures = 0
    /\ conn = [c \in Conns |-> NewConnHandler]
    /\ invoked = 0
    /\ panicked = FALSE
    /\ segmentDuration \in SegmentDurations
    /\ video = NewVideoState
    /\ locking = NoCalls

\* one publisher and the segmenter, for each configured segment duration
SpecConfigured == InitConfigured /\ [][NextSegmenter]_vars

\* one publisher's video messages, byte by byte, up to the subscriber
NextVideo ==
    \/ PublishStep("c1", "live1", {NoToken})
    \/ \E data \in VideoMessages : OnVideoPacket("c1", data, MaxVideoMsgs)
    \/ PublishFrameUpdateStats("c1")
    \/ PublishFrameSubscribers("c1")
    \/ PublishFrameSend("c1")
    \/ \E p \in DOMAIN pms : WorkerReceive(p)

SpecVideo == Init /\ [][NextVideo]_vars


(***************************************************************************)
(* The claims                                                              *)
(***************************************************************************)

\* the connections whose ValidateToken returned nil for token t
ValidatedWith(t) == {c \in Conns : conn[c].validated /\ conn[c].publishToken = t}

\* C1: for every issued token, at most one ValidateToken call of the racing
\* publish admissions (ValidateToken, then MarkTokenUsed) returns success.
C1_AtMostOneValidationPerToken ==
    \A t \in DOMAIN tokObjs : Cardinality(ValidatedWith(t)) <= 1

\* the open connections that hold a stream object of key k in state Live
LiveHolders(k) ==
    {c \in Conns : /\ conn[c].pc # "closed"
                   /\ conn[c].stream # NoObj
                   /\ objs[conn[c].stream].Key = k
                   /\ objs[conn[c].stream].State = "live"}

\* C2: for every stream key, at every instant, at most one connection holds a
\* stream object of that key in state Live.
C2_AtMostOneLivePublisher ==
    \A k \in Keys : Cardinality(LiveHolders(k)) <= 1

\* C3: PublishFrame never sends on a subscriber channel that was closed by
\* StopStream or by the subscriber's cleanup: no panic on the publish path.
C3_NoSendOnClosedChannel ==
    \A c \in Conns : conn[c].pc # "panic"

\* the frame starts a random-access unit: a video keyframe whose payload is
\* SPS, PPS, then the IDR
StartsRandomAccess(frame) ==
    /\ frame.IsVideo
    /\ frame.IsKeyFrame
    /\ Len(frame.Payload) >= 3
    /\ SubSeq(frame.Payload, 1, 3) = <<"SPS", "PPS", "IDR">>

\* C4: every finalized segment with sequence number > 0 has a video keyframe
\* as its first frame, and that keyframe's payload begins with SPS and PPS.
C4_SegmentsStartWithKeyframe ==
    \A p \in DOMAIN pms : \A i \in DOMAIN pms[p].segments :
        pms[p].segments[i].SequenceNum > 0
            => StartsRandomAccess(pms[p].segments[i].Data[1])

\* C5: within one publishing session the sequence numbers of the recorded
\* segments, in creation order, are 0, 1, 2, ... with no gap and no duplicate.
C5_SequenceNumbersContiguous ==
    \A p \in DOMAIN pms :
        pms[p].recorded = [i \in 1..Len(pms[p].recorded) |-> i - 1]

\* C6: every iteration of PublishFrame's loop over a subscriber that is still
\* registered (its channel is open) either enqueues the frame on that
\* subscriber's channel or increments the DroppedFrames counter of the stream
\* the frame was published to, by one.
C6_EnqueuedOrCounted ==
    [][\A c \in Conns :
          (conn[c].pc = "pubSend" /\ conn'[c].snap # conn[c].snap) =>
              LET ch == Head(conn[c].snap)
                  o == conn[c].pubStream
              IN  \/ /\ chans'[ch].buf = Append(chans[ch].buf, conn[c].frame)
                     /\ objs'[o].DroppedFrames = objs[o].DroppedFrames
                  \/ /\ chans'[ch].buf = chans[ch].buf
                     /\ objs'[o].DroppedFrames = objs[o].DroppedFrames + 1]_vars

\* C6, its case: a frame was counted as dropped for a subscriber whose buffer
\* is full, and the publisher has finished the call
C6_Witness ==
    \E c \in Conns :
        /\ conn[c].pc = "ready"
        /\ conn[c].pubStream # NoObj
        /\ objs[conn[c].pubStream].DroppedFrames > 0
        /\ \E ch \in DOMAIN chans : ~chans[ch].closed /\ Len(chans[ch].buf) = ChanCap

\* C7: a ValidateToken call that starts after its token was marked used, or
\* after the clock has passed its ExpiresAt, fails; also after the token was
\* purged by cleanupToken or CleanupExpiredTokens.
C7_DeadTokenNeverValidates ==
    \A c \in Conns : conn[c].deadAtCall => ~conn[c].validated

\* C7, its case: a connection presented a token that another admission had
\* consumed, and was rejected
C7_Witness ==
    \E c \in Conns :
        /\ conn[c].deadAtCall
        /\ conn[c].pc = "rejected"
        /\ tokObjs[conn[c].publishToken].IsUsed
        /\ \E d \in Conns \ {c} : conn[d].validated

\* the PublishFrame invocation numbers of the frames a subscriber has received
\* from its channel, then of those still buffered in it
Delivered(ch) ==
    chans[ch].got \o [i \in DOMAIN chans[ch].buf |-> chans[ch].buf[i].Inv]

\* C8: the frames a subscriber receives from its channel are in the order in
\* which the corresponding PublishFrame calls were invoked.
C8_FramesInPublishOrder ==
    \A ch \in DOMAIN chans :
        \A i, j \in DOMAIN Delivered(ch) :
            i < j => Delivered(ch)[i] < Delivered(ch)[j]

\* C9: after n finalized segments with window size W the playlist lists the
\* min(n, W) most recent of the sequence numbers 0 .. n-1, in increasing
\* order, and EXT-X-MEDIA-SEQUENCE is the oldest listed number (0 when empty).
C9_WindowHoldsMostRecent ==
    \A p \in DOMAIN pms :
        LET n == Len(pms[p].recorded)
            m == Min(n, MaxSegments)
        IN  /\ Listed(p) = [i \in 1..m |-> n - m + i - 1]
            /\ MediaSequence(p) = IF m = 0 THEN 0 ELSE n - m

\* the sequence numbers in the playlist window of key k
Window(k) ==
    IF playlists[k] = NoObj THEN {} ELSE Range(Listed(playlists[k]))

\* C10: a read of media segment N of a stream returns not-found whenever N is
\* not a sequence number in that stream's playlist window.
C10_OutsideWindowNotFound ==
    \A k \in Keys : \A n \in 0..(MaxSegMsgs + MaxWriteFailures) :
        n \notin Window(k) => GetSegment(k, n) = "not found"


\* the least whole number of seconds that is no less than ms milliseconds
CeilSeconds(ms) == (ms + Second - 1) \div Second

VideoLog == UNION {Range(video[c].log) : c \in Conns}

\* the bytes begin with an Annex-B start code
BeginsWithStartCode(bytes) ==
    \/ Len(bytes) >= 4 /\ SubSeq(bytes, 1, 4) = StartCode4
    \/ Len(bytes) >= 3 /\ SubSeq(bytes, 1, 3) = StartCode3

\* C12: when the AVCC body of a video message that is not a sequence header
\* fails the Annex-B conversion, the frame is dropped: OnVideo hands no
\* Frame for it to PublishFrame, and no video payload that is not Annex-B
\* reaches a subscriber's channel.
C12_FailedConversionDropsFrame ==
    /\ \A e \in VideoLog : e.conv.err => ~e.handed
    /\ \A ch \in DOMAIN chans : \A i \in DOMAIN chans[ch].buf :
           chans[ch].buf[i].IsVideo => BeginsWithStartCode(chans[ch].buf[i].Payload)

AlreadyStopped(k) ==
    playlists[k] = NoObj /\ \E p \in DOMAIN pms : pms[p].streamKey = k

\* C14: a second StopSegmenting call for a stream key, after the call that
\* stopped its segmentation, changes no segmenter or registry state, closes
\* no channel and does not panic, however the calls interleave with
\* StopStream on the key.
C14_SecondStopSegmentingIsNoOp ==
    [][\A c \in Conns :
          (/\ conn[c].pc = "ready"
           /\ conn'[c].pc = "stopStream"
           /\ AlreadyStopped(conn[c].streamKey))
          => /\ UNCHANGED <<regVars, segVars>>
             /\ panicked' = panicked]_vars

\* C14, its case: two connections were admitted on one key whose
\* segmentation was started once, and both have called StopSegmenting
C14_Witness ==
    /\ Len(pms) = 1
    /\ \A c \in Conns :
           conn[c].streamKey = "live1" /\ conn[c].teardown # <<>>
    /\ ~panicked

\* the positions of a connection inside PublishFrame
InPublishFrame == {"pubStats", "pubSnap", "pubSend"}

\* C15: PublishFrame on a known stream always completes and returns ok
\* without any consumer taking a step: inside the call the publisher's next
\* step is always enabled, every step leaves it in the call or returns to
\* the handler, and a step on a subscriber whose buffer is full leaves the
\* buffer as it is and increases DroppedFrames.
C15_PublishNeverBlocks ==
    /\ [](\A c \in Conns :
             conn[c].pc \in InPublishFrame =>
                 ENABLED (\/ PublishFrameUpdateStats(c)
                          \/ PublishFrameSubscribers(c)
                          \/ PublishFrameSend(c)))
    /\ [][\A c \in Conns :
             (conn[c].pc \in InPublishFrame /\ conn'[c] # conn[c]) =>
                 /\ conn'[c].pc \in InPublishFrame \cup {"ready"}
                 /\ (/\ conn[c].pc = "pubSend"
                     /\ ~chans[Head(conn[c].snap)].closed
                     /\ Len(chans[Head(conn[c].snap)].buf) = ChanCap)
                    => /\ chans'[Head(conn[c].snap)].buf
                            = chans[Head(conn[c].snap)].buf
                       /\ objs'[conn[c].pubStream].DroppedFrames
                            > objs[conn[c].pubStream].DroppedFrames]_vars

\* the AVCC body of a logged video message
Body(e) == ParseFLVVideoPacket(e.msg).avcData

\* the non-empty NAL units of an AVCC body whose length prefixes are size
\* bytes long, in order, up to the first unit that does not fit
RECURSIVE NALUnits(_, _)
NALUnits(bytes, size) ==
    IF Len(bytes) < size THEN <<>>
    ELSE LET n == BigEndian(SubSeq(bytes, 1, size))
             rest == SubSeq(bytes, size + 1, Len(bytes))
         IN  IF n > Len(rest) THEN <<>>
             ELSE (IF n = 0 THEN <<>> ELSE <<SubSeq(rest, 1, n)>>)
                  \o NALUnits(SubSeq(rest, n + 1, Len(rest)), size)

\* C16: a successful AVCC to Annex-B conversion emits, for every non-empty
\* NAL unit of the input whatever its type, the 4-byte start code 00 00 00 01
\* and the unit's bytes, in input order; zero-length units are skipped.
C16_FourByteStartCodeForEveryUnit ==
    \A e \in VideoLog :
        (e.handed /\ ~e.conv.err) =>
            e.conv.data = WithStartCodes(NALUnits(Body(e), 4))

\* the Annex-B stream of a list of NAL units, each behind the start code
\* the converter gives its type
RECURSIVE AnnexBOf(_)
AnnexBOf(nals) ==
    IF nals = <<>> THEN <<>>
    ELSE StartCodeFor(Head(nals)) \o Head(nals) \o AnnexBOf(Tail(nals))

\* the body is a list of non-empty NAL units behind length prefixes of size
\* bytes, and nothing else
WellFormed(bytes, size) ==
    /\ NALUnits(bytes, size) # <<>>
    /\ LengthPrefixed(NALUnits(bytes, size), size, 0) = bytes

\* C17: after a sequence header declaring NAL-length-size L in {1, 2, 4} was
\* received on a connection, every later AVCPacketType = 1 payload on the
\* connection is split into NAL units by reading L-byte big-endian length
\* prefixes.
C17_DeclaredLengthSizeIsApplied ==
    \A e \in VideoLog :
        (/\ e.handed
         /\ e.naluLength \in {1, 2, 4}
         /\ WellFormed(Body(e), e.naluLength))
        => e.annexBData = AnnexBOf(NALUnits(Body(e), e.naluLength))

\* the lengths an AVCC body declares in its 4-byte prefixes, each with the
\* number of bytes left after the prefix, up to the first that does not fit
RECURSIVE Declared(_)
Declared(bytes) ==
    IF Len(bytes) < 4 THEN <<>>
    ELSE LET n == BigEndian(SubSeq(bytes, 1, 4))
             rest == SubSeq(bytes, 5, Len(bytes))
         IN  <<[length |-> n, left |-> Len(rest)]>>
             \o (IF n > Len(rest) THEN <<>>
                 ELSE Declared(SubSeq(rest, n + 1, Len(rest))))

\* C18: the AVCC conversion accepts an input whose last declared NAL length
\* exactly equals the number of bytes left, and rejects with an error and no
\* output an input in which a declared NAL length exceeds the bytes left by
\* one or more.
C18_ExactFitAcceptedOverrunRejected ==
    \A e \in VideoLog :
        e.handed =>
            LET d == Declared(Body(e))
            IN  /\ (/\ d # <<>>
                    /\ \A i \in DOMAIN d : d[i].length <= d[i].left
                    /\ d[Len(d)].length = d[Len(d)].left)
                   => ~e.conv.err
                /\ (\E i \in DOMAIN d : d[i].length > d[i].left)
                   => (e.conv.err /\ e.conv.data = <<>>)

\* C19: parsing an AVCDecoderConfigurationRecord whose lengthSizeMinusOne + 1
\* is 3 fails with an error; only the NAL-length sizes 1, 2 and 4 are
\* accepted.
C19_LengthSizeThreeRejected ==
    \A e \in VideoLog :
        (e.record # NotCalled /\ ~e.record.err) =>
            e.record.NALUnitLength \in {1, 2, 4}

\* C20: for a keyframe message received while the connection holds a parsed
\* codec config, the published payload is every SPS in order, each behind
\* 00 00 00 01, then every PPS in order, each behind 00 00 00 01, then the
\* frame's own Annex-B bytes; for a message that is not a keyframe it is the
\* frame's Annex-B bytes with nothing before them.
C20_KeyframeCarriesParameterSets ==
    \A e \in VideoLog :
        e.handed =>
            IF ParseFLVVideoPacket(e.msg).isKeyFrame
            THEN e.naluLength # 0 =>
                     e.payload = WithStartCodes(e.sps) \o WithStartCodes(e.pps)
                                 \o e.annexBData
            ELSE e.payload = e.annexBData

\* C21: for every AVCC input the conversion accepts, splitting the Annex-B
\* output at its start codes yields the input's non-empty NAL units: the same
\* number, in the same order, each body byte for byte.
C21_RoundTripPreservesUnits ==
    \A e \in VideoLog :
        (e.handed /\ ~e.conv.err) =>
            ScanAnnexB(e.conv.data, 0) = NALUnits(Body(e), 4)

\* C22: a video message of exactly 5 bytes, the FLV video header with no AVC
\* data behind it, is reported as an error and no Frame is published for it.
C22_HeaderOnlyMessagePublishesNothing ==
    \A e \in VideoLog : Len(e.msg) = 5 => ~e.handed

\* C23: a playlist request for a stream that has no finalized segment yet
\* yields a not-found outcome, not a playlist text.
C23_NoSegmentsNoPlaylist ==
    \A k \in Keys :
        (playlists[k] = NoObj \/ Len(pms[playlists[k]].segments) = 0) =>
            GetPlaylist(k) = "not found"

\* a step of Manager.StopStream on key k: the HTTP stop, or OnClose's call
StopStreamStep(k) ==
    /\ streams[k] # NoObj
    /\ streams' = streams
    /\ \/ conn' = conn
       \/ \E c \in Conns : /\ conn[c].pc = "stopStream"
                           /\ conn'[c].pc = "closed"
                           /\ conn[c].streamKey = k

HoldsKeyFrame(p) ==
    \E i \in DOMAIN pms[p].frames :
        pms[p].frames[i].IsVideo /\ pms[p].frames[i].IsKeyFrame

\* C25: a closing tick that finds the current buffer empty or without any
\* keyframe changes nothing: the next sequence number, the segment list, the
\* has-init flag, storage contents and the buffered frames are all unchanged
\* (no tick step that changes a variable is possible in such a state).
C25_IdleTickChangesNothing ==
    \A p \in DOMAIN pms :
        (pms[p].running /\ ~HoldsKeyFrame(p)) =>
            ~ENABLED (WorkerTick(p) /\ vars' # vars)

\* C25, its case: a running worker whose tick is due holds frames, none of
\* them a keyframe, after it has written a segment
C25_Witness ==
    \E p \in DOMAIN pms :
        /\ pms[p].running
        /\ pms[p].frames # <<>>
        /\ ~HoldsKeyFrame(p)
        /\ pms[p].sequenceNumber > 0
        /\ ENABLED WorkerTick(p)

\* C26: when the storage write of a segment fails during finalization, that
\* segment is discarded: no Segment record is appended to the playlist for
\* it, and the frames of the failed buffer are not carried into any later
\* segment.
C26_FailedWriteDiscardsSegment ==
    \A p \in DOMAIN pms :
        \A i \in DOMAIN pms[p].segments :
            /\ pms[p].segments[i].SequenceNum \in Range(pms[p].recorded)
            /\ Range(pms[p].segments[i].Data) \cap Range(pms[p].failed) = {}

\* C30: audio frames received by the segmentation worker are never appended
\* to the current segment buffer and never contribute bytes to any written
\* segment.
C30_AudioNeverBuffered ==
    \A p \in DOMAIN pms :
        /\ \A i \in DOMAIN pms[p].frames : pms[p].frames[i].IsVideo
        /\ \A j \in DOMAIN pms[p].segments :
               \A i \in DOMAIN pms[p].segments[j].Data :
                   pms[p].segments[j].Data[i].IsVideo

\* connection c presented a token and ValidateToken failed
AuthFailed(c) ==
    /\ conn[c].publishToken # NoToken
    /\ ~conn[c].validated
    /\ conn[c].pc \in {"rejected", "closed"}

\* C27: when a publish presents a token and ValidateToken fails, OnPublish
\* returns an error and leaves everything else unchanged: the token's used
\* flag is not set, no stream is created or modified in the registry, no
\* segmentation is started, and the connection is not bound to a stream
\* (later media on it is ignored).
C27_FailedValidationChangesNothing ==
    /\ [](\A c \in Conns :
             AuthFailed(c) => /\ conn[c].result = "error"
                              /\ conn[c].stream = NoObj
                              /\ \A i \in DOMAIN video[c].log : ~video[c].log[i].handed)
    /\ [][\A c \in Conns :
             /\ (conn[c].pc \in {"new", "validate"}
                   /\ conn'[c].pc \in {"validate", "rejected"}
                   /\ conn'[c].pc # conn[c].pc)
                  => UNCHANGED <<authVars, regVars, segVars>>
             /\ (AuthFailed(c) /\ conn'[c].sent # conn[c].sent)
                  => /\ UNCHANGED <<authVars, regVars, segVars, invoked>>
                     /\ conn'[c].pc = conn[c].pc]_vars

\* C27, its case: a connection was rejected for a token that another
\* connection had consumed to start a stream with segmentation, and the
\* keyframe it sent afterwards was ignored
C27_Witness ==
    \E c, d \in Conns :
        /\ AuthFailed(c)
        /\ conn[c].pc = "rejected"
        /\ conn[c].sent = 1
        /\ conn[c].tok # NoToken
        /\ conn[d].stream # NoObj
        /\ playlists["live1"] # NoObj
        /\ invoked = 0

\* the lifetime in seconds the request's expires_in asks for: the default
\* when it is not positive, otherwise that many seconds, at most the maximum
RequestedLifetime(expiresIn) ==
    IF ~Less64(Zero64, expiresIn) THEN DefaultExpiration
    ELSE IF Less64(ToInt64(MaxExpiration), expiresIn) THEN MaxExpiration
    ELSE ToInt(expiresIn)

\* C28: for every integer expiresIn, GeneratePublishToken issues a token whose
\* lifetime (ExpiresAt - CreatedAt) lies in (0, maxExpiration]:
\* defaultExpiration when expiresIn <= 0, otherwise min(expiresIn seconds,
\* maxExpiration), including for expiresIn values whose conversion to
\* nanoseconds overflows 64 bits.
C28_LifetimeWithinBounds ==
    \A t \in DOMAIN tokObjs :
        LET lifetime == tokObjs[t].ExpiresAt - tokObjs[t].CreatedAt
        IN  /\ 0 < lifetime /\ lifetime <= MaxExpiration
            /\ lifetime = RequestedLifetime(tokObjs[t].expiresIn)

\* C29: CleanupExpiredTokens removes exactly the tokens whose ExpiresAt plus
\* one minute is in the past and leaves every other token (including tokens
\* expired for less than one minute) in the store unchanged.
C29_SweepKeepsRecentlyExpired ==
    [][(tokens' # tokens /\ UNCHANGED <<tokObjs, cleanupAt>>) =>
          /\ tokens' = {t \in tokens : ~(now > tokObjs[t].ExpiresAt + OneMinute)}
          /\ now' = now]_vars

\* the channel of PlaylistManager p's worker is closed and the worker has not
\* returned
Draining(p) == pms[p].running /\ chans[pms[p].ch].closed

\* C31: after a stream's subscriber channel is closed, the segmentation worker
\* eventually receives every frame that was enqueued before the close, then
\* performs one final finalize attempt (producing a segment iff the buffer
\* holds a keyframe) and terminates.  As long as the worker has not
\* terminated it can take its next step (receive a buffered frame, or see the
\* close), it returns only when the channel is drained, and its last step
\* records a segment exactly when the buffer holds a keyframe.
C31_WorkerDrainsAndTerminates ==
    /\ [](\A p \in DOMAIN pms :
             Draining(p) => ENABLED (WorkerReceive(p) \/ WorkerClosed(p)))
    /\ [][\A p \in DOMAIN pms :
             (Draining(p) /\ ~pms'[p].running) =>
                 /\ chans[pms[p].ch].buf = <<>>
                 /\ HoldsKeyFrame(p) <=>
                        pms'[p].recorded = Append(pms[p].recorded, pms[p].sequenceNumber)]_vars

\* C32: within one publishing session each storage object is written at most
\* once: init.mp4 is written by at most one finalization, and no two
\* finalizations write the same segment_N.m4s path.
C32_EachObjectWrittenOnce ==
    \A p \in DOMAIN pms :
        \A i, j \in DOMAIN pms[p].written :
            pms[p].written[i] = pms[p].written[j] => i = j

\* C32, its case: one session has written init.mp4 and two segments, after a
\* segment write of it had failed
C32_Witness ==
    \E p \in DOMAIN pms :
        /\ Len(pms[p].written) = 3
        /\ InitPath(pms[p].streamKey) \in Range(pms[p].written)
        /\ pms[p].failed # <<>>

\* a publisher of key k has disconnected, no connection admitted on k is
\* still open, and no subscriber is registered for k
Released(k) ==
    /\ \E c \in Conns : conn[c].streamKey = k /\ conn[c].stream # NoObj
    /\ \A c \in Conns :
           (conn[c].streamKey = k /\ conn[c].stream # NoObj) => conn[c].pc = "closed"
    /\ subscribers[k] = <<>>

\* C33: after a stream's publisher has disconnected and all of its subscribers
\* have been released, the stream is eventually removed from the registry:
\* once that is so, either the key has no stream or a step that changes the
\* state is still to come.
C33_ReleasedStreamIsRemoved ==
    \A k \in Keys :
        Released(k) => (streams[k] = NoObj \/ ENABLED (NextTeardown /\ vars' # vars))

\* the workers that are running on a subscription to key k
SubscribedWorkers(k) ==
    {p \in DOMAIN pms : /\ pms[p].streamKey = k
                        /\ pms[p].running
                        /\ pms[p].ch \in Range(subscribers[k])
                        /\ ~chans[pms[p].ch].closed}

\* OnPublish has returned nil on connection c, which has not closed since
Admitted(c) ==
    /\ conn[c].result = "ok"
    /\ conn[c].pc \notin {"stopStream", "closed"}

\* C34: whenever OnPublish has admitted a publisher and its stream is Live, a
\* segmentation worker subscribed to that stream key is running (exactly one
\* worker per Live stream), in every sequence of publish, HTTP stop and close
\* events on that key.
C34_OneWorkerPerLiveStream ==
    \A c \in Conns :
        (Admitted(c) /\ objs[conn[c].stream].State = "live") =>
            Cardinality(SubscribedWorkers(conn[c].streamKey)) = 1

\* C35: the close handling of a connection stops only the publishing session
\* that this connection itself started: OnClose of connection A never sets to
\* Stopped a stream object created by a different connection B, and never
\* removes B's segmentation worker, in any sequence of publish, HTTP
\* stop-stream and close events on the same key.
C35_CloseStopsOwnSessionOnly ==
    [][\A c \in Conns :
          /\ (conn[c].pc = "stopStream" /\ conn'[c].pc = "closed") =>
                 \A o \in DOMAIN objs :
                     (objs[o].State # "stopped" /\ objs'[o].State = "stopped")
                         => conn[c].stream = o
          /\ (conn[c].pc # "stopStream" /\ conn'[c].pc = "stopStream") =>
                 \A k \in Keys :
                     (playlists[k] # NoObj /\ playlists'[k] = NoObj)
                         => conn[c].started = playlists[k]]_vars

\* C36: at every instant, every segment listed in a stream's playlist is
\* present in storage: a segment is listed only after its write succeeded, and
\* no storage delete, the eviction deletes still pending from an earlier
\* session of the same key included, removes a path that is currently listed.
C36_ListedSegmentsStored ==
    \A k \in Keys :
        playlists[k] # NoObj =>
            \A i \in DOMAIN pms[playlists[k]].segments :
                pms[playlists[k]].segments[i].FilePath \in storage

\* C37: a generated playlist contains the EXT-X-MAP line only if the init
\* segment bytes were successfully written to storage for that session; when
\* the init write fails, no later playlist of that session advertises init.mp4.
C37_MapOnlyAfterInitWritten ==
    \A k \in Keys :
        (GetPlaylist(k) = "playlist" /\ ExtXMap(playlists[k])) =>
            \E i \in DOMAIN pms[playlists[k]].written :
                pms[playlists[k]].written[i] = InitPath(k)

\* connection c has run MarkTokenUsed on the token t it presented
Marked(c, t) ==
    /\ conn[c].publishToken = t
    /\ conn[c].validated
    /\ conn[c].pc \notin {"new", "validate", "mark"}

\* C38: a token's used flag is set only by an admission that succeeds: if
\* OnPublish returns an error for any reason (the stream key being already
\* live included), the presented token remains unconsumed and can still
\* validate later.  A used token was marked by a connection whose OnPublish
\* has not returned an error.
C38_OnlyAdmissionConsumes ==
    \A t \in DOMAIN tokObjs :
        tokObjs[t].IsUsed =>
            \E c \in Conns : Marked(c, t) /\ conn[c].result # "error"

\* goroutine g waits in Lock or RLock
Blocked(g) ==
    \/ At(g, "Lock") /\ ~CanLock(g)
    \/ At(g, "RLock") /\ ~CanRLock(g)

\* the goroutines a waiting goroutine g waits for: the holders of the mutex,
\* and for a reader the writers that wait for it
Blockers(g) ==
    {o \in Goroutines :
        \/ HeldW(o, Head(locking[g]).mu)
        \/ At(g, "Lock") /\ HeldR(o, Head(locking[g]).mu)
        \/ At(g, "RLock") /\ o # g /\ Pending(o, Head(locking[g]).mu)}

\* every goroutine of S waits for goroutines of S only
Deadlocked(S) ==
    /\ S # {}
    /\ \A g \in S : Blocked(g) /\ Blockers(g) \subseteq S

\* C39: no deadlock is reachable among the handler, segmenter, playlist,
\* registry, subscriber-list and per-stream locks: in every interleaving of
\* OnPublish, OnVideo/OnAudio, OnClose, HTTP stop-stream, playlist reads and
\* the segmentation worker, every started operation can eventually acquire
\* the locks it needs and complete.  No set of goroutines waits only for its
\* own members: whoever waits, waits for a goroutine that can still run.
C39_NoDeadlock ==
    \A S \in SUBSET Goroutines : ~Deadlocked(S)

\* OnClose of c1 holds its handler mutex and s.mu and waits for subMu, which
\* the HTTP stop holds inside m.mu, while OnPublish of c2 waits for m.mu
C39_Witness ==
    /\ HeldW("c1", "s.mu") /\ Blocked("c1") /\ Head(locking["c1"]).mu = "subMu"
    /\ HeldW("http", "m.mu") /\ HeldW("http", "subMu")
    /\ Blocked("c2") /\ Head(locking["c2"]).mu = "m.mu"

=============================================================================
